---- MODULE Spec2Model ----
(***************************************************************************)
(* Model of the slider-pvp wager program                                   *)
(* (programs/slider-pvp/src/lib.rs): one Wager record, its vault, the      *)
(* lamport balances of the accounts that take part, and the cluster clock. *)
(* Every instruction handler is one action; a handler that returns an      *)
(* error or panics aborts the transaction and leaves record and balances   *)
(* as they were.                                                           *)
(***************************************************************************)
EXTENDS Integers, Sequences, FiniteSets, TLC

\* ---------------------------------------------------------------- constants
TIMEOUT_SECONDS == 120
DEPOSIT_TIMEOUT_SECONDS == 30
WINNER_PERCENTAGE == 95

\* ------------------------------------------------------------------- bounds
\* Largest value of the model's unsigned word (u64 in the program, scaled).
U64_MAX == 2047
\* Clock value at which the model starts.
StartTime == 1
\* Number of clock advances in one behaviour.
MaxTicks == 4

\* Amounts by which the clock advances in one step.
TickSteps == {1, DEPOSIT_TIMEOUT_SECONDS, TIMEOUT_SECONDS}

\* Accounts that exist on the ledger.  "vault" is the vault PDA.
Vault == "vault"
Users == {"alice", "bob", "arb", "fee", "mallory"}
Accounts == Users \cup {Vault}
\* Keys that can sign a transaction (a PDA cannot).
Signers == {"alice", "bob", "arb"}
\* Accounts a caller can pass in the unchecked, writable AccountInfo slots
\* for a player (or the winner) and for the fee recipient.
Dests == {"alice", "bob", "mallory"}
FeeDests == {"fee", "mallory"}

\* Inputs of initialize_wager.
Player1Keys == {"alice"}
Player2Keys == {"alice", "bob"}
ArbiterKeys == {"arb"}
FeeKeys == {"fee"}
Payers == {"arb"}
WagerAmounts == {0, 1, 4, 10, 11, 12}
\* Rent sysvar outcomes: <<minimum balance of the wager account,
\*                         minimum balance of the (empty) vault account>>.
Rents == {<<0, 0>>, <<2, 1>>, <<3, 2>>}
\* winner argument (u8) of declare_winner.
WinnerArgs == {1, 2, 3}

\* Lamports every account holds before the wager is created.
InitialLamports ==
  [a \in Accounts |->
     CASE a = "alice" -> 12
       [] a = "bob" -> 11
       [] a = "arb" -> 8
       [] OTHER -> 0]

VARIABLES
  initialized,   \* the wager (and vault) account has been created
  wager,         \* the Wager record
  lamports,      \* lamport balance of every account
  now,           \* Clock::get()?.unix_timestamp
  vault_rent,    \* lamports the vault was created with
  deposited,     \* per account, lamports it moved into the vault
  paid,          \* per account, lamports credited to it out of the vault
  settlements,   \* number of successful declare_winner/refund/cancel_wager
  last,          \* the last instruction: its outcome, the amounts it logged
  ticks          \* clock advances so far

vars == <<initialized, wager, lamports, now, vault_rent, deposited, paid,
          settlements, last, ticks>>

None == <<>>
Some(x) == <<x>>

\* ------------------------------------------------------- checked arithmetic
\* u64::checked_add / checked_sub / checked_mul / checked_div: None on
\* overflow, underflow or division by zero.
checked_add(a, b) == IF a + b > U64_MAX THEN None ELSE Some(a + b)
checked_sub(a, b) == IF b > a THEN None ELSE Some(a - b)
\* Variant: the product wraps (wrapping_mul) instead of failing.
checked_mul_wrapping(a, b) == Some((a * b) % (U64_MAX + 1))
checked_mul(a, b) == IF a * b > U64_MAX THEN None ELSE Some(a * b)
checked_div(a, b) == IF b = 0 THEN None ELSE Some(a \div b)

IsSome(o) == o # None
unwrap(o) == o[1]

\* ------------------------------------------------------------ record, Init
ZeroWager ==
  [player1 |-> "", player2 |-> "", arbiter |-> "", fee_recipient |-> "",
   wager_amount |-> 0, player1_deposited |-> FALSE,
   player2_deposited |-> FALSE, creation_time |-> 0, start_time |-> 0,
   winner |-> None, is_settled |-> FALSE, initialization_cost |-> 0]

NoAmounts == <<>>
Outcome(result, amounts) == [result |-> result, amounts |-> amounts]

Zero == [a \in Accounts |-> 0]

Init ==
  /\ initialized = FALSE
  /\ wager = ZeroWager
  /\ lamports = InitialLamports
  /\ now = StartTime
  /\ vault_rent = 0
  /\ deposited = Zero
  /\ paid = Zero
  /\ settlements = 0
  /\ last = Outcome("NotCalled", NoAmounts)
  /\ ticks = 0

\* An aborted transaction: nothing but the outcome is recorded.
Abort(result) ==
  /\ last' = Outcome(result, NoAmounts)
  /\ UNCHANGED <<initialized, wager, lamports, now, vault_rent, deposited,
                 paid, settlements, ticks>>

\* ------------------------------------------------------------------- clock
Tick(d) ==
  /\ initialized
  /\ ticks < MaxTicks
  /\ now' = now + d
  /\ ticks' = ticks + 1
  /\ UNCHANGED <<initialized, wager, lamports, vault_rent, deposited, paid,
                 settlements, last>>

\* -------------------------------------------------------- initialize_wager
\* Variant: the two players are not compared.
InitializeWagerResult_NoSamePlayerCheck(player1, player2, wager_amount, rent, payer) ==
  IF ~(wager_amount > 0) THEN "InvalidWagerAmount"
  ELSE IF ~IsSome(checked_add(rent[1], rent[2])) THEN "Panic"
  ELSE IF lamports[payer] < rent[1] + rent[2] THEN "LedgerError"
  ELSE "Ok"

InitializeWagerResult(player1, player2, wager_amount, rent, payer) ==
  IF player1 = player2 THEN "SamePlayer"
  ELSE IF ~(wager_amount > 0) THEN "InvalidWagerAmount"
  ELSE IF ~IsSome(checked_add(rent[1], rent[2])) THEN "Panic"
  ELSE IF lamports[payer] < rent[1] + rent[2] THEN "LedgerError"
  ELSE "Ok"

InitializeWager(player1, player2, arbiter, fee_recipient, wager_amount, rent, payer) ==
  /\ ~initialized
  /\ LET r == InitializeWagerResult(player1, player2, wager_amount, rent,
                                    payer)
     IN IF r # "Ok" THEN Abort(r)
        ELSE
          /\ initialized' = TRUE
          /\ wager' = [player1 |-> player1, player2 |-> player2,
                       arbiter |-> arbiter, fee_recipient |-> fee_recipient,
                       wager_amount |-> wager_amount,
                       player1_deposited |-> FALSE,
                       player2_deposited |-> FALSE,
                       creation_time |-> now, start_time |-> 0,
                       winner |-> None, is_settled |-> FALSE,
                       initialization_cost |->
                         unwrap(checked_add(rent[1], rent[2]))]
          /\ lamports' = [lamports EXCEPT
                            ![payer] = @ - (rent[1] + rent[2]),
                            ![Vault] = @ + rent[2]]
          /\ vault_rent' = rent[2]
          /\ last' = Outcome("Ok", NoAmounts)
          /\ UNCHANGED <<now, deposited, paid, settlements, ticks>>

\* ----------------------------------------------------------------- deposits
\* system_program::transfer(from, to, amount)
TransferOk(from, amount) == lamports[from] >= amount

\* Variant: the player1_deposited flag is not tested.
DepositPlayer1Result_NoFlagCheck(signer) ==
  IF wager.is_settled THEN "WagerAlreadySettled"
  ELSE IF signer # wager.player1 THEN "UnauthorizedPlayer"
  ELSE IF ~TransferOk(signer, wager.wager_amount) THEN "LedgerError"
  ELSE "Ok"

DepositPlayer1Result(signer) ==
  IF wager.is_settled THEN "WagerAlreadySettled"
  ELSE IF wager.player1_deposited THEN "AlreadyDeposited"
  ELSE IF signer # wager.player1 THEN "UnauthorizedPlayer"
  ELSE IF ~TransferOk(signer, wager.wager_amount) THEN "LedgerError"
  ELSE "Ok"

\* Variant: the timer is started by every deposit of player 1.
DepositPlayer1_AlwaysStarts(signer) ==
  /\ initialized
  /\ LET r == DepositPlayer1Result(signer)
     IN IF r # "Ok" THEN Abort(r)
        ELSE
          /\ lamports' = [lamports EXCEPT
                            ![signer] = @ - wager.wager_amount,
                            ![Vault] = @ + wager.wager_amount]
          /\ deposited' = [deposited EXCEPT
                             ![signer] = @ + wager.wager_amount]
          /\ wager' = [wager EXCEPT !.player1_deposited = TRUE,
                                    !.start_time = now]
          /\ last' = Outcome("Ok", NoAmounts)
          /\ UNCHANGED <<initialized, now, vault_rent, paid, settlements,
                         ticks>>

DepositPlayer1(signer) ==
  /\ initialized
  /\ LET r == DepositPlayer1Result(signer)
     IN IF r # "Ok" THEN Abort(r)
        ELSE
          /\ lamports' = [lamports EXCEPT
                            ![signer] = @ - wager.wager_amount,
                            ![Vault] = @ + wager.wager_amount]
          /\ deposited' = [deposited EXCEPT
                             ![signer] = @ + wager.wager_amount]
          /\ wager' = [wager EXCEPT
                         !.player1_deposited = TRUE,
                         !.start_time =
                           IF wager.player2_deposited THEN now ELSE @]
          /\ last' = Outcome("Ok", NoAmounts)
          /\ UNCHANGED <<initialized, now, vault_rent, paid, settlements,
                         ticks>>

DepositPlayer2Result(signer) ==
  IF wager.is_settled THEN "WagerAlreadySettled"
  ELSE IF wager.player2_deposited THEN "AlreadyDeposited"
  ELSE IF signer # wager.player2 THEN "UnauthorizedPlayer"
  ELSE IF ~TransferOk(signer, wager.wager_amount) THEN "LedgerError"
  ELSE "Ok"

\* Variant: a deposit of player 2 restarts the timer from the creation time.
DepositPlayer2_FromCreation(signer) ==
  /\ initialized
  /\ LET r == DepositPlayer2Result(signer)
     IN IF r # "Ok" THEN Abort(r)
        ELSE
          /\ lamports' = [lamports EXCEPT
                            ![signer] = @ - wager.wager_amount,
                            ![Vault] = @ + wager.wager_amount]
          /\ deposited' = [deposited EXCEPT
                             ![signer] = @ + wager.wager_amount]
          /\ wager' = [wager EXCEPT
                         !.player2_deposited = TRUE,
                         !.start_time =
                           IF wager.player1_deposited
                             THEN wager.creation_time ELSE @]
          /\ last' = Outcome("Ok", NoAmounts)
          /\ UNCHANGED <<initialized, now, vault_rent, paid, settlements,
                         ticks>>

DepositPlayer2(signer) ==
  /\ initialized
  /\ LET r == DepositPlayer2Result(signer)
     IN IF r # "Ok" THEN Abort(r)
        ELSE
          /\ lamports' = [lamports EXCEPT
                            ![signer] = @ - wager.wager_amount,
                            ![Vault] = @ + wager.wager_amount]
          /\ deposited' = [deposited EXCEPT
                             ![signer] = @ + wager.wager_amount]
          /\ wager' = [wager EXCEPT
                         !.player2_deposited = TRUE,
                         !.start_time =
                           IF wager.player1_deposited THEN now ELSE @]
          /\ last' = Outcome("Ok", NoAmounts)
          /\ UNCHANGED <<initialized, now, vault_rent, paid, settlements,
                         ticks>>

\* ------------------------------------------------- direct lamport movement
\* **vault.try_borrow_mut_lamports()? -= amount;
\* **to.try_borrow_mut_lamports()? += amount;
\* on a balance function bal; None when the subtraction or the addition
\* leaves the unsigned range (the transaction does not commit).
Pay(bal, to, amount) ==
  IF bal = None THEN None
  ELSE IF ~IsSome(checked_sub(unwrap(bal)[Vault], amount)) THEN None
  ELSE LET b1 == [unwrap(bal) EXCEPT ![Vault] = @ - amount]
       IN IF ~IsSome(checked_add(b1[to], amount)) THEN None
          ELSE Some([b1 EXCEPT ![to] = @ + amount])

Credit(p, to, amount) == [p EXCEPT ![to] = @ + amount]

\* ---------------------------------------------------------- declare_winner
TotalPool == checked_mul(wager.wager_amount, 2)

DistributablePool ==
  IF ~IsSome(TotalPool) THEN None
  ELSE checked_sub(unwrap(TotalPool), wager.initialization_cost)

\* Variant: the division by 100 comes before the multiplication.
WinnerAmount_DivideFirst ==
  IF ~IsSome(DistributablePool) THEN None
  ELSE LET q == checked_div(unwrap(DistributablePool), 100)
       IN IF ~IsSome(q) THEN None
          ELSE checked_mul(unwrap(q), WINNER_PERCENTAGE)

WinnerAmount ==
  IF ~IsSome(DistributablePool) THEN None
  ELSE LET m == checked_mul(unwrap(DistributablePool), WINNER_PERCENTAGE)
       IN IF ~IsSome(m) THEN None ELSE checked_div(unwrap(m), 100)

\* Variant: the fee taken as a second percentage of the pool.
FeeAmount_SecondPercentage ==
  IF ~IsSome(WinnerAmount) THEN None
  ELSE LET m == checked_mul(unwrap(DistributablePool),
                            100 - WINNER_PERCENTAGE)
       IN IF ~IsSome(m) THEN None ELSE checked_div(unwrap(m), 100)

FeeAmount ==
  IF ~IsSome(WinnerAmount) THEN None
  ELSE checked_sub(unwrap(DistributablePool), unwrap(WinnerAmount))

DeclareWinnerLamports(winner_account, fee_recipient) ==
  IF ~IsSome(FeeAmount) THEN None
  ELSE Pay(Pay(Some(lamports), winner_account, unwrap(WinnerAmount)),
           fee_recipient, unwrap(FeeAmount))

\* Variant: the arbiter is checked before the settled flag.
DeclareWinnerResult_ArbiterFirst(arbiter, winner, winner_account, fee_recipient) ==
  IF arbiter # wager.arbiter THEN "UnauthorizedArbiter"
  ELSE IF wager.is_settled THEN "WagerAlreadySettled"
  ELSE IF ~(wager.player1_deposited /\ wager.player2_deposited)
    THEN "BothPlayersNotDeposited"
  ELSE IF ~(winner = 1 \/ winner = 2) THEN "InvalidWinner"
  ELSE IF ~(now - wager.start_time <= TIMEOUT_SECONDS) THEN "TimeoutExpired"
  ELSE IF ~IsSome(DeclareWinnerLamports(winner_account, fee_recipient))
    THEN "Panic"
  ELSE "Ok"

\* Variant: the arbiter's window is not tested.
DeclareWinnerResult_NoWindow(arbiter, winner, winner_account, fee_recipient) ==
  IF wager.is_settled THEN "WagerAlreadySettled"
  ELSE IF arbiter # wager.arbiter THEN "UnauthorizedArbiter"
  ELSE IF ~(wager.player1_deposited /\ wager.player2_deposited)
    THEN "BothPlayersNotDeposited"
  ELSE IF ~(winner = 1 \/ winner = 2) THEN "InvalidWinner"
  ELSE IF ~IsSome(DeclareWinnerLamports(winner_account, fee_recipient))
    THEN "Panic"
  ELSE "Ok"

\* Variant: the winner argument and the window are tested before the deposits.
DeclareWinnerResult_WinnerFirst(arbiter, winner, winner_account, fee_recipient) ==
  IF wager.is_settled THEN "WagerAlreadySettled"
  ELSE IF arbiter # wager.arbiter THEN "UnauthorizedArbiter"
  ELSE IF ~(winner = 1 \/ winner = 2) THEN "InvalidWinner"
  ELSE IF ~(now - wager.start_time <= TIMEOUT_SECONDS) THEN "TimeoutExpired"
  ELSE IF ~(wager.player1_deposited /\ wager.player2_deposited)
    THEN "BothPlayersNotDeposited"
  ELSE IF ~IsSome(DeclareWinnerLamports(winner_account, fee_recipient))
    THEN "Panic"
  ELSE "Ok"

DeclareWinnerResult(arbiter, winner, winner_account, fee_recipient) ==
  IF wager.is_settled THEN "WagerAlreadySettled"
  ELSE IF arbiter # wager.arbiter THEN "UnauthorizedArbiter"
  ELSE IF ~(wager.player1_deposited /\ wager.player2_deposited)
    THEN "BothPlayersNotDeposited"
  ELSE IF ~(winner = 1 \/ winner = 2) THEN "InvalidWinner"
  ELSE IF ~(now - wager.start_time <= TIMEOUT_SECONDS) THEN "TimeoutExpired"
  ELSE IF ~IsSome(DeclareWinnerLamports(winner_account, fee_recipient))
    THEN "Panic"
  ELSE "Ok"

DeclareWinner(arbiter, winner, winner_account, fee_recipient) ==
  /\ initialized
  /\ LET r == DeclareWinnerResult(arbiter, winner, winner_account,
                                  fee_recipient)
     IN IF r # "Ok" THEN Abort(r)
        ELSE
          /\ lamports' =
               unwrap(DeclareWinnerLamports(winner_account, fee_recipient))
          /\ paid' = Credit(Credit(paid, winner_account,
                                   unwrap(WinnerAmount)),
                            fee_recipient, unwrap(FeeAmount))
          /\ wager' = [wager EXCEPT !.winner = Some(winner),
                                    !.is_settled = TRUE]
          /\ settlements' = settlements + 1
          /\ last' = Outcome("Ok",
                             <<unwrap(WinnerAmount), unwrap(FeeAmount)>>)
          /\ UNCHANGED <<initialized, now, vault_rent, deposited, ticks>>

\* ------------------------------------------------------------------ refund
\* Variant: half the pool rounded up.
RefundAmount_RoundUp ==
  IF ~IsSome(DistributablePool) THEN None
  ELSE checked_div(unwrap(DistributablePool) + 1, 2)

RefundAmount ==
  IF ~IsSome(DistributablePool) THEN None
  ELSE checked_div(unwrap(DistributablePool), 2)

RefundLamports(player1, player2) ==
  IF ~IsSome(RefundAmount) THEN None
  ELSE Pay(Pay(Some(lamports), player1, unwrap(RefundAmount)),
           player2, unwrap(RefundAmount))

\* Variant: the refund window opens one second early (>= for >).
RefundResult_AtDeadline(player1, player2) ==
  IF wager.is_settled THEN "WagerAlreadySettled"
  ELSE IF ~(wager.player1_deposited /\ wager.player2_deposited)
    THEN "BothPlayersNotDeposited"
  ELSE IF ~(now - wager.start_time >= TIMEOUT_SECONDS)
    THEN "TimeoutNotExpired"
  ELSE IF ~IsSome(RefundLamports(player1, player2)) THEN "Panic"
  ELSE "Ok"

RefundResult(player1, player2) ==
  IF wager.is_settled THEN "WagerAlreadySettled"
  ELSE IF ~(wager.player1_deposited /\ wager.player2_deposited)
    THEN "BothPlayersNotDeposited"
  ELSE IF ~(now - wager.start_time > TIMEOUT_SECONDS)
    THEN "TimeoutNotExpired"
  ELSE IF ~IsSome(RefundLamports(player1, player2)) THEN "Panic"
  ELSE "Ok"

Refund(player1, player2) ==
  /\ initialized
  /\ LET r == RefundResult(player1, player2)
     IN IF r # "Ok" THEN Abort(r)
        ELSE
          /\ lamports' = unwrap(RefundLamports(player1, player2))
          /\ paid' = Credit(Credit(paid, player1, unwrap(RefundAmount)),
                            player2, unwrap(RefundAmount))
          /\ wager' = [wager EXCEPT !.is_settled = TRUE]
          /\ settlements' = settlements + 1
          /\ last' = Outcome("Ok", <<unwrap(RefundAmount)>>)
          /\ UNCHANGED <<initialized, now, vault_rent, deposited, ticks>>

\* ------------------------------------------------------------ cancel_wager
\* Variant: the single refund computed from the two-stake pool, as in refund.
CancelRefundAmount_FromPool == DistributablePool

CancelRefundAmount ==
  checked_sub(wager.wager_amount, wager.initialization_cost)

CancelLamports(player1, player2) ==
  IF ~IsSome(CancelRefundAmount) THEN None
  ELSE LET b1 == IF wager.player1_deposited
                   THEN Pay(Some(lamports), player1,
                            unwrap(CancelRefundAmount))
                   ELSE Some(lamports)
       IN IF wager.player2_deposited
            THEN Pay(b1, player2, unwrap(CancelRefundAmount))
            ELSE b1

CancelPaid(player1, player2) ==
  LET p1 == IF wager.player1_deposited
              THEN Credit(paid, player1, unwrap(CancelRefundAmount))
              ELSE paid
  IN IF wager.player2_deposited
       THEN Credit(p1, player2, unwrap(CancelRefundAmount))
       ELSE p1

CancelWagerResult(player1, player2) ==
  IF wager.is_settled THEN "WagerAlreadySettled"
  ELSE IF wager.player1_deposited /\ wager.player2_deposited
    THEN "BothPlayersAlreadyDeposited"
  ELSE IF ~(now - wager.creation_time > DEPOSIT_TIMEOUT_SECONDS)
    THEN "DepositTimeoutNotExpired"
  ELSE IF ~IsSome(CancelLamports(player1, player2)) THEN "Panic"
  ELSE "Ok"

CancelWager(player1, player2) ==
  /\ initialized
  /\ LET r == CancelWagerResult(player1, player2)
     IN IF r # "Ok" THEN Abort(r)
        ELSE
          /\ lamports' = unwrap(CancelLamports(player1, player2))
          /\ paid' = CancelPaid(player1, player2)
          /\ wager' = [wager EXCEPT !.is_settled = TRUE]
          /\ settlements' = settlements + 1
          /\ last' = Outcome("Ok", <<unwrap(CancelRefundAmount)>>)
          /\ UNCHANGED <<initialized, now, vault_rent, deposited, ticks>>

\* ----------------------------------------------------------- specification
Next ==
  \/ \E d \in TickSteps : Tick(d)
  \/ \E p1 \in Player1Keys, p2 \in Player2Keys, ar \in ArbiterKeys,
        fr \in FeeKeys, w \in WagerAmounts, rent \in Rents,
        payer \in Payers :
       InitializeWager(p1, p2, ar, fr, w, rent, payer)
  \/ \E s \in Signers : DepositPlayer1(s)
  \/ \E s \in Signers : DepositPlayer2(s)
  \/ \E s \in Signers, w \in WinnerArgs, wa \in Dests, fa \in FeeDests :
       DeclareWinner(s, w, wa, fa)
  \/ \E a1 \in Dests, a2 \in Dests : Refund(a1, a2)
  \/ \E a1 \in Dests, a2 \in Dests : CancelWager(a1, a2)

Spec == Init /\ [][Next]_vars

TypeOK ==
  /\ initialized \in BOOLEAN
  /\ now \in Nat
  /\ \A a \in Accounts : lamports[a] \in 0..U64_MAX
  /\ wager.wager_amount \in 0..U64_MAX
  /\ settlements \in Nat

\* ------------------------------------------------------------- vocabulary
RECURSIVE SumOver(_, _)
SumOver(f, S) ==
  IF S = {} THEN 0
  ELSE LET a == CHOOSE x \in S : TRUE IN f[a] + SumOver(f, S \ {a})

\* Lamports debited from the vault by settlements / moved in by deposits.
TotalPaid == SumOver(paid, Accounts)
TotalDeposited == SumOver(deposited, Accounts)

BothDeposited == wager.player1_deposited /\ wager.player2_deposited
NoneDeposited == ~wager.player1_deposited /\ ~wager.player2_deposited
DepositCount ==
  (IF wager.player1_deposited THEN 1 ELSE 0)
  + (IF wager.player2_deposited THEN 1 ELSE 0)

\* How a settled wager was settled (the three handlers leave distinct marks).
SettledByDeclareWinner == wager.is_settled /\ wager.winner # None
SettledByRefund ==
  wager.is_settled /\ wager.winner = None /\ BothDeposited
SettledByCancel ==
  wager.is_settled /\ wager.winner = None /\ ~BothDeposited

\* ---------------------------------------------------------------------- C1
\* C1: once is_settled is true, deposit_player1, deposit_player2,
\* declare_winner, refund and cancel_wager fail with WagerAlreadySettled for
\* every caller, argument and clock value, no step changes the record or a
\* balance, and at most one settlement ever succeeds.
C1_AllRejected ==
  (initialized /\ wager.is_settled) =>
    /\ \A s \in Signers :
         /\ DepositPlayer1Result(s) = "WagerAlreadySettled"
         /\ DepositPlayer2Result(s) = "WagerAlreadySettled"
         /\ \A w \in WinnerArgs, wa \in Dests, fa \in FeeDests :
              DeclareWinnerResult(s, w, wa, fa) = "WagerAlreadySettled"
    /\ \A a1 \in Dests, a2 \in Dests :
         /\ RefundResult(a1, a2) = "WagerAlreadySettled"
         /\ CancelWagerResult(a1, a2) = "WagerAlreadySettled"

C1_Frozen ==
  wager.is_settled =>
    /\ wager' = wager
    /\ lamports' = lamports
    /\ paid' = paid
    /\ settlements' = settlements

C1_SettlementExclusivity ==
  /\ [](C1_AllRejected /\ settlements <= 1
        /\ (settlements = 1 <=> wager.is_settled))
  /\ [][C1_Frozen]_vars

C1_Witness ==
  /\ wager.is_settled
  /\ settlements = 1
  /\ last.result = "WagerAlreadySettled"
  /\ now > wager.creation_time + DEPOSIT_TIMEOUT_SECONDS + TIMEOUT_SECONDS

\* ---------------------------------------------------------------------- C2
\* C2: the lamports debited from the vault by declare_winner, refund and
\* cancel_wager never exceed the lamports the players deposited, and the
\* vault never falls below the balance it was created with.
C2_NoValueCreation ==
  /\ TotalPaid <= TotalDeposited
  /\ lamports[Vault] >= vault_rent
  /\ lamports[Vault] = vault_rent + TotalDeposited - TotalPaid

C2_Witness ==
  /\ wager.is_settled
  /\ TotalPaid > 0
  /\ TotalPaid < TotalDeposited

\* ---------------------------------------------------------------------- C3
\* C3: a successful declare_winner pays winner_amount =
\* floor(distributable * 95 / 100) and fee_amount = distributable -
\* winner_amount, with distributable = 2 * wager_amount -
\* initialization_cost; the two sum to distributable, which is at most
\* 2 * wager_amount.
C3_Distributable == 2 * wager.wager_amount - wager.initialization_cost
C3_Floor95 == (C3_Distributable * 95) \div 100

C3_WinnerSplit ==
  SettledByDeclareWinner =>
    /\ C3_Distributable >= 0
    /\ C3_Distributable <= 2 * wager.wager_amount
    /\ TotalPaid = C3_Distributable
    /\ \E wa \in Accounts, fa \in Accounts :
         paid = Credit(Credit(Zero, wa, C3_Floor95),
                       fa, C3_Distributable - C3_Floor95)
    /\ (last.result = "Ok" =>
          /\ last.amounts = <<C3_Floor95, C3_Distributable - C3_Floor95>>
          /\ last.amounts[1] + last.amounts[2] = C3_Distributable)

C3_Witness ==
  /\ SettledByDeclareWinner
  /\ last.result = "Ok"
  /\ (C3_Distributable * 95) % 100 # 0
  /\ last.amounts[2] > (C3_Distributable * 5) \div 100

\* ---------------------------------------------------------------------- C4
\* C4: a successful declare_winner(winner) credits winner_amount to the
\* recorded player1 (winner = 1) or player2 (winner = 2) and fee_amount to
\* the recorded fee_recipient, and credits no other account, whatever
\* accounts the caller passes.
C4_WinnerKey ==
  IF wager.winner = Some(1) THEN wager.player1 ELSE wager.player2

C4_PaysRecordedWinner ==
  SettledByDeclareWinner =>
    paid = Credit(Credit(Zero, C4_WinnerKey, C3_Floor95),
                  wager.fee_recipient, C3_Distributable - C3_Floor95)

\* ---------------------------------------------------------------------- C5
\* C5: whatever refund or cancel_wager debits from the vault is credited to
\* the recorded player1 / player2, each role's refund to that role's
\* identity, for every caller and every account the caller passes.
C5_RefundsToRecordedPlayers ==
  /\ SettledByRefund =>
       paid = Credit(Credit(Zero, wager.player1, C3_Distributable \div 2),
                     wager.player2, C3_Distributable \div 2)
  /\ SettledByCancel =>
       paid = [a \in Accounts |->
                 IF \/ a = wager.player1 /\ wager.player1_deposited
                    \/ a = wager.player2 /\ wager.player2_deposited
                   THEN wager.wager_amount - wager.initialization_cost
                   ELSE 0]

\* ---------------------------------------------------------------------- C6
\* C6: in every unsettled state with both deposits in and
\* now - start_time > 120, refund succeeds, for every wager_amount > 0 and
\* every initialization_cost.
C6_RefundAvailable ==
  (initialized /\ ~wager.is_settled /\ BothDeposited
   /\ now - wager.start_time > TIMEOUT_SECONDS) =>
    RefundResult(wager.player1, wager.player2) = "Ok"

\* ---------------------------------------------------------------------- C7
\* C7: while the wager is unsettled the vault holds wager_amount for each
\* deposit flag that is true (on top of its rent); a deposit rejected by the
\* ledger changes neither the record nor a balance; no account is ever
\* debited more than wager_amount by deposits.
C7_CustodyMatchesFlags ==
  /\ (initialized /\ ~wager.is_settled) =>
       /\ lamports[Vault] - vault_rent = wager.wager_amount * DepositCount
       /\ TotalDeposited = wager.wager_amount * DepositCount
  /\ initialized =>
       /\ deposited[wager.player1] =
            (IF wager.player1_deposited THEN wager.wager_amount ELSE 0)
       /\ deposited[wager.player2] =
            (IF wager.player2_deposited THEN wager.wager_amount ELSE 0)
  /\ \A a \in Accounts : deposited[a] <= wager.wager_amount

C7_RejectedTransfer ==
  last'.result = "LedgerError" =>
    /\ wager' = wager
    /\ lamports' = lamports
    /\ deposited' = deposited

C7_DepositAtomicity == []C7_CustodyMatchesFlags /\ [][C7_RejectedTransfer]_vars

C7_Witness ==
  /\ initialized
  /\ ~wager.is_settled
  /\ DepositCount = 1
  /\ last.result = "LedgerError"
  /\ lamports[Vault] = vault_rent + wager.wager_amount

\* ---------------------------------------------------------------------- C8
\* C8: for an unsettled wager with both deposits in, declare_winner by the
\* arbiter with winner 1 or 2 is rejected with TimeoutExpired exactly when
\* now - start_time > 120, and refund is rejected with TimeoutNotExpired
\* exactly when now - start_time <= 120; never both, never neither.
C8_ComplementaryWindows ==
  (initialized /\ ~wager.is_settled /\ BothDeposited) =>
    \A w \in {1, 2}, wa \in Dests, fa \in FeeDests, a1 \in Dests,
       a2 \in Dests :
      LET declareLate ==
            DeclareWinnerResult(wager.arbiter, w, wa, fa) = "TimeoutExpired"
          refundEarly == RefundResult(a1, a2) = "TimeoutNotExpired"
      IN /\ declareLate <=> (now - wager.start_time > TIMEOUT_SECONDS)
         /\ refundEarly <=> (now - wager.start_time <= TIMEOUT_SECONDS)
         /\ declareLate <=> ~refundEarly

C8_Witness ==
  /\ initialized
  /\ ~wager.is_settled
  /\ BothDeposited
  /\ now - wager.start_time = TIMEOUT_SECONDS + 1
  /\ last.result = "TimeoutExpired"

\* ---------------------------------------------------------------------- C9
\* C9: for an unsettled wager in which exactly one role has deposited,
\* cancel_wager succeeds when now - creation_time > 30 and fails with
\* DepositTimeoutNotExpired when now - creation_time <= 30.
C9_CancelOneDepositor ==
  (initialized /\ ~wager.is_settled /\ DepositCount = 1) =>
    CancelWagerResult(wager.player1, wager.player2) =
      (IF now - wager.creation_time > DEPOSIT_TIMEOUT_SECONDS
         THEN "Ok" ELSE "DepositTimeoutNotExpired")

\* --------------------------------------------------------------------- C10
\* C10: from the Created state (no deposit flag true, unsettled), once
\* now - creation_time > 30 cancel_wager succeeds for every
\* wager_amount > 0 and every initialization_cost.
C10_CancelNoDepositor ==
  (initialized /\ ~wager.is_settled /\ NoneDeposited
   /\ now - wager.creation_time > DEPOSIT_TIMEOUT_SECONDS) =>
    \A a1 \in Dests, a2 \in Dests : CancelWagerResult(a1, a2) = "Ok"

\* --------------------------------------------------------------------- C11
\* C11: when 2 * wager_amount or distributable * 95 does not fit the
\* unsigned word, or initialization_cost exceeds the pool it is subtracted
\* from, declare_winner (likewise refund and cancel_wager) does not succeed;
\* the aborted call changes no balance and sets neither winner nor
\* is_settled; every amount a settlement pays is the exact, unwrapped one.
C11_PoolFails ==
  \/ 2 * wager.wager_amount > U64_MAX
  \/ wager.initialization_cost > 2 * wager.wager_amount

C11_SplitFails ==
  C11_PoolFails \/ C3_Distributable * WINNER_PERCENTAGE > U64_MAX

C11_NoSuccessOnFailure ==
  (initialized /\ ~wager.is_settled) =>
    /\ (BothDeposited /\ C11_SplitFails) =>
         \A s \in Signers, w \in WinnerArgs, wa \in Dests, fa \in FeeDests :
           /\ DeclareWinnerResult(s, w, wa, fa) # "Ok"
           /\ (s = wager.arbiter /\ w \in {1, 2}
               /\ now - wager.start_time <= TIMEOUT_SECONDS) =>
                DeclareWinnerResult(s, w, wa, fa) = "Panic"
    /\ (BothDeposited /\ C11_PoolFails) =>
         \A a1 \in Dests, a2 \in Dests :
           /\ RefundResult(a1, a2) # "Ok"
           /\ (now - wager.start_time > TIMEOUT_SECONDS) =>
                RefundResult(a1, a2) = "Panic"
    /\ (~BothDeposited
        /\ wager.initialization_cost > wager.wager_amount) =>
         \A a1 \in Dests, a2 \in Dests : CancelWagerResult(a1, a2) # "Ok"

C11_ExactAmounts ==
  /\ SettledByDeclareWinner =>
       C3_Distributable >= 0 /\ TotalPaid = C3_Distributable
  /\ SettledByRefund =>
       C3_Distributable >= 0 /\ TotalPaid = 2 * (C3_Distributable \div 2)
  /\ SettledByCancel =>
       /\ wager.wager_amount >= wager.initialization_cost
       /\ TotalPaid = DepositCount
                        * (wager.wager_amount - wager.initialization_cost)

C11_PanicChangesNothing ==
  last'.result = "Panic" =>
    /\ wager' = wager
    /\ lamports' = lamports
    /\ paid' = paid

C11_FailClosed ==
  /\ [](C11_NoSuccessOnFailure /\ C11_ExactAmounts)
  /\ [][C11_PanicChangesNothing]_vars

C11_Witness ==
  /\ initialized
  /\ ~wager.is_settled
  /\ BothDeposited
  /\ ~C11_PoolFails
  /\ C3_Distributable * WINNER_PERCENTAGE > U64_MAX
  /\ now - wager.start_time <= TIMEOUT_SECONDS
  /\ last.result = "Panic"
  /\ wager.winner = None

\* --------------------------------------------------------------------- C12
\* C12: in every reachable state start_time is non-zero if and only if both
\* player1_deposited and player2_deposited are true.
C12_StartTimeIffBothDeposited ==
  (wager.start_time # 0) <=> BothDeposited

C12_Witness ==
  /\ initialized
  /\ BothDeposited
  /\ wager.start_time # 0
  /\ wager.start_time > wager.creation_time

\* --------------------------------------------------------------------- C13
\* C13: start_time is written exactly once, by the deposit that makes both
\* flags true (never by the first deposit), to the clock value of that
\* deposit; no later step changes it.
C13_WrittenBySecondDeposit ==
  /\ (wager'.start_time # wager.start_time) =>
       /\ initialized
       /\ ~BothDeposited
       /\ DepositCount = 1
       /\ wager.start_time = 0
       /\ wager'.player1_deposited /\ wager'.player2_deposited
       /\ wager'.start_time = now
       /\ now' = now
  /\ (~BothDeposited
      /\ wager'.player1_deposited /\ wager'.player2_deposited) =>
       wager'.start_time = now
  /\ BothDeposited => wager'.start_time = wager.start_time

C13_StartTimeSetOnce == [][C13_WrittenBySecondDeposit]_vars

C13_Witness ==
  /\ wager.is_settled
  /\ BothDeposited
  /\ wager.start_time > wager.creation_time
  /\ now > wager.start_time
  /\ last.result = "WagerAlreadySettled"

\* --------------------------------------------------------------------- C14
\* The deposit handlers as functions of the record and the balances
\* s = [wager, lamports] and of the clock value t, signed by the recorded
\* player; a rejected deposit returns s.
DepositPlayer1At_NoTimer(s, t) ==
  IF \/ s.wager.is_settled
     \/ s.wager.player1_deposited
     \/ s.lamports[s.wager.player1] < s.wager.wager_amount
    THEN s
    ELSE [wager |-> [s.wager EXCEPT !.player1_deposited = TRUE],
          lamports |-> [s.lamports EXCEPT
                          ![s.wager.player1] = @ - s.wager.wager_amount,
                          ![Vault] = @ + s.wager.wager_amount]]

DepositPlayer1At(s, t) ==
  IF \/ s.wager.is_settled
     \/ s.wager.player1_deposited
     \/ s.lamports[s.wager.player1] < s.wager.wager_amount
    THEN s
    ELSE [wager |-> [s.wager EXCEPT
                       !.player1_deposited = TRUE,
                       !.start_time =
                         IF s.wager.player2_deposited THEN t ELSE @],
          lamports |-> [s.lamports EXCEPT
                          ![s.wager.player1] = @ - s.wager.wager_amount,
                          ![Vault] = @ + s.wager.wager_amount]]

DepositPlayer2At(s, t) ==
  IF \/ s.wager.is_settled
     \/ s.wager.player2_deposited
     \/ s.lamports[s.wager.player2] < s.wager.wager_amount
    THEN s
    ELSE [wager |-> [s.wager EXCEPT
                       !.player2_deposited = TRUE,
                       !.start_time =
                         IF s.wager.player1_deposited THEN t ELSE @],
          lamports |-> [s.lamports EXCEPT
                          ![s.wager.player2] = @ - s.wager.wager_amount,
                          ![Vault] = @ + s.wager.wager_amount]]

\* C14: for every wager and all times t1 <= t2, deposit_player2 at t1 then
\* deposit_player1 at t2 gives the same record (both flags true,
\* start_time = t2, unsettled, no winner) and the same vault balance as
\* deposit_player1 at t1 then deposit_player2 at t2.
C14_State == [wager |-> wager, lamports |-> lamports]

C14_Times == {now, now + 1, now + DEPOSIT_TIMEOUT_SECONDS + 1}

C14_Commute ==
  (initialized /\ ~wager.is_settled /\ NoneDeposited) =>
    \A t1 \in C14_Times, t2 \in C14_Times :
      (t1 <= t2) =>
        LET p2first == DepositPlayer1At(DepositPlayer2At(C14_State, t1), t2)
            p1first == DepositPlayer2At(DepositPlayer1At(C14_State, t1), t2)
        IN /\ p2first = p1first
           /\ (/\ lamports[wager.player1] >= wager.wager_amount
               /\ lamports[wager.player2] >= wager.wager_amount) =>
                /\ p2first.wager =
                     [wager EXCEPT !.player1_deposited = TRUE,
                                   !.player2_deposited = TRUE,
                                   !.start_time = t2]
                /\ ~p2first.wager.is_settled
                /\ p2first.wager.winner = None
                /\ p2first.lamports[Vault] =
                     lamports[Vault] + 2 * wager.wager_amount

\* The handlers of the model are these functions at the current clock.
C14_HandlersAgree ==
  /\ (wager'.player1_deposited /\ ~wager.player1_deposited) =>
       [wager |-> wager', lamports |-> lamports'] =
         DepositPlayer1At(C14_State, now)
  /\ (wager'.player2_deposited /\ ~wager.player2_deposited) =>
       [wager |-> wager', lamports |-> lamports'] =
         DepositPlayer2At(C14_State, now)

C14_DepositOrderIndependence ==
  []C14_Commute /\ [][C14_HandlersAgree]_vars

C14_Witness ==
  /\ initialized
  /\ ~wager.is_settled
  /\ BothDeposited
  /\ wager.winner = None
  /\ wager.start_time = now
  /\ wager.start_time > wager.creation_time
  /\ lamports[Vault] = vault_rent + 2 * wager.wager_amount
  /\ last.result = "Ok"

\* --------------------------------------------------------------------- C15
\* C15: winner is set if and only if the wager was settled by a successful
\* declare_winner; that call came from the recorded arbiter, with both
\* deposits in and now - start_time <= 120, and stored its winner argument
\* (1 or 2); a settlement by refund or cancel_wager leaves winner none.
C15_WinnerState ==
  /\ wager.winner # None =>
       /\ wager.is_settled
       /\ BothDeposited
       /\ wager.winner \in {Some(1), Some(2)}
  /\ initialized =>
       \A s \in Signers \ {wager.arbiter}, w \in WinnerArgs, wa \in Dests,
          fa \in FeeDests :
         DeclareWinnerResult(s, w, wa, fa) # "Ok"

C15_WinnerStep ==
  /\ (wager'.winner # wager.winner) =>
       /\ wager.winner = None
       /\ ~wager.is_settled /\ wager'.is_settled
       /\ BothDeposited
       /\ now - wager.start_time <= TIMEOUT_SECONDS
       /\ Len(last'.amounts) = 2
       /\ \E w \in {1, 2} :
            /\ wager'.winner = Some(w)
            /\ \E wa \in Dests, fa \in FeeDests :
                 DeclareWinner(wager.arbiter, w, wa, fa)
  /\ (~wager.is_settled /\ wager'.is_settled) =>
       /\ last'.result = "Ok"
       /\ (wager'.winner # None) <=> (Len(last'.amounts) = 2)

C15_WinnerIffDeclared == []C15_WinnerState /\ [][C15_WinnerStep]_vars

C15_Witness ==
  /\ wager.is_settled
  /\ wager.winner = Some(2)
  /\ now - wager.start_time = TIMEOUT_SECONDS
  /\ last.result = "Ok"
  /\ Len(last.amounts) = 2

\* --------------------------------------------------------------------- C16
\* C16: declare_winner by the arbiter on an unsettled wager without both
\* deposits fails with BothPlayersNotDeposited at every clock value and for
\* every winner argument, also one outside {1, 2}, and changes nothing.
C16_NotDepositedFirst ==
  (initialized /\ ~wager.is_settled /\ ~BothDeposited) =>
    \A w \in WinnerArgs, wa \in Dests, fa \in FeeDests :
      DeclareWinnerResult(wager.arbiter, w, wa, fa)
        = "BothPlayersNotDeposited"

C16_RejectionChangesNothing ==
  last'.result = "BothPlayersNotDeposited" =>
    /\ wager' = wager
    /\ lamports' = lamports
    /\ paid' = paid

C16_DeclareBeforeDeposits ==
  []C16_NotDepositedFirst /\ [][C16_RejectionChangesNothing]_vars

C16_Witness ==
  /\ initialized
  /\ ~wager.is_settled
  /\ DepositCount = 1
  /\ now - wager.start_time > TIMEOUT_SECONDS
  /\ last.result = "BothPlayersNotDeposited"

\* --------------------------------------------------------------------- C17
\* The scenario of C17, with amounts counted in units of 100_000_000
\* lamports: wager_amount = 1_000_000_000, no allocation cost, both
\* deposits in, declare_winner for player 1 succeeded within the window.
C17_Scenario ==
  /\ initialized
  /\ wager.wager_amount * 100000000 = 1000000000
  /\ wager.initialization_cost = 0
  /\ SettledByDeclareWinner
  /\ wager.winner = Some(1)
  /\ last.result = "Ok"
  /\ Len(last.amounts) = 2

\* C17 (as claimed): in that scenario winner_amount = 1_805_000_000 and
\* fee_amount = 95_000_000.
C17_ClaimedAmounts ==
  C17_Scenario =>
    /\ last.amounts[1] * 100000000 = 1805000000
    /\ last.amounts[2] * 100000000 = 95000000

\* C17 (amended): in that scenario the pool is 2_000_000_000, so
\* winner_amount = 1_900_000_000 and fee_amount = 100_000_000.
C17_ScenarioAmounts ==
  C17_Scenario =>
    /\ last.amounts[1] * 100000000 = 1900000000
    /\ last.amounts[2] * 100000000 = 100000000
    /\ TotalPaid * 100000000 = 2000000000

C17_Witness ==
  /\ C17_Scenario
  /\ last.amounts = <<19, 1>>
  /\ now - wager.start_time <= TIMEOUT_SECONDS

\* --------------------------------------------------------------------- C18
\* C18 (as claimed): after a refund the two payments sum exactly to the
\* distributable pool 2 * wager_amount - initialization_cost, for every
\* wager_amount and initialization_cost.
C18_NoRemainderClaimed ==
  SettledByRefund => TotalPaid = C3_Distributable

\* C18 (amended): the two equal refund payments are floor(pool / 2) each;
\* they sum to the pool when it is even and to the pool less one lamport
\* when it is odd, the odd lamport staying in the vault; with zero cost
\* each payment is exactly wager_amount and the vault keeps only its rent.
C18_RefundSum ==
  SettledByRefund =>
    /\ TotalPaid = 2 * (C3_Distributable \div 2)
    /\ C3_Distributable - TotalPaid = (C3_Distributable % 2)
    /\ lamports[Vault] =
         vault_rent + wager.initialization_cost + (C3_Distributable % 2)
    /\ (last.result = "Ok" => last.amounts = <<C3_Distributable \div 2>>)
    /\ (wager.initialization_cost = 0) =>
         /\ TotalPaid = 2 * wager.wager_amount
         /\ lamports[Vault] = vault_rent
         /\ (last.result = "Ok" => last.amounts = <<wager.wager_amount>>)

C18_Witness ==
  /\ SettledByRefund
  /\ last.result = "Ok"
  /\ C3_Distributable % 2 = 1
  /\ TotalPaid = C3_Distributable - 1

\* --------------------------------------------------------------------- C19
\* C19: a deposit by the right player (who holds wager_amount) on an
\* unsettled wager whose flag is false succeeds at every clock value; once
\* the deposit window has lapsed with one deposit missing, cancel_wager and
\* the missing deposit are both enabled, and whichever commits first makes
\* the other fail (the deposit with WagerAlreadySettled, cancel_wager with
\* BothPlayersAlreadyDeposited); no deposit is accepted into a settled
\* wager.
C19_BothEnabled ==
  /\ (initialized /\ ~wager.is_settled) =>
       /\ (~wager.player1_deposited
           /\ lamports[wager.player1] >= wager.wager_amount) =>
            DepositPlayer1Result(wager.player1) = "Ok"
       /\ (~wager.player2_deposited
           /\ lamports[wager.player2] >= wager.wager_amount) =>
            DepositPlayer2Result(wager.player2) = "Ok"
       /\ (DepositCount = 1
           /\ now - wager.creation_time > DEPOSIT_TIMEOUT_SECONDS) =>
            \A a1 \in Dests, a2 \in Dests :
              CancelWagerResult(a1, a2) = "Ok"
       /\ BothDeposited =>
            \A a1 \in Dests, a2 \in Dests :
              CancelWagerResult(a1, a2) = "BothPlayersAlreadyDeposited"
  /\ (initialized /\ wager.is_settled) =>
       \A s \in Signers :
         /\ DepositPlayer1Result(s) = "WagerAlreadySettled"
         /\ DepositPlayer2Result(s) = "WagerAlreadySettled"

C19_NoLateDeposit ==
  wager.is_settled =>
    /\ deposited' = deposited
    /\ wager'.player1_deposited = wager.player1_deposited
    /\ wager'.player2_deposited = wager.player2_deposited

C19_DepositCancelRace == []C19_BothEnabled /\ [][C19_NoLateDeposit]_vars

\* --------------------------------------------------------------------- C20
\* C20: after initialize_wager no step, successful or failing, changes
\* player1, player2, arbiter, fee_recipient, wager_amount, creation_time or
\* initialization_cost; player1 # player2 and wager_amount > 0 hold in every
\* state of the wager; a deposit flag never goes from true back to false.
C20_Identity ==
  <<wager.player1, wager.player2, wager.arbiter, wager.fee_recipient,
    wager.wager_amount, wager.creation_time, wager.initialization_cost>>

C20_Valid ==
  initialized =>
    /\ wager.player1 # wager.player2
    /\ wager.wager_amount > 0

C20_Frame ==
  /\ initialized =>
       /\ initialized'
       /\ C20_Identity' = C20_Identity
  /\ wager.player1_deposited => wager'.player1_deposited
  /\ wager.player2_deposited => wager'.player2_deposited

C20_IdentityFrame == []C20_Valid /\ [][C20_Frame]_vars

C20_Witness ==
  /\ initialized
  /\ wager.is_settled
  /\ DepositCount = 1
  /\ wager.initialization_cost > 0
  /\ now > wager.creation_time + DEPOSIT_TIMEOUT_SECONDS
  /\ last.result = "WagerAlreadySettled"

====
